---------------------------- MODULE Spec2Model ----------------------------
(***************************************************************************)
(* create_images.py: the image generators of the Lumina AI web site.       *)
(*                                                                         *)
(* Every generator allocates a canvas, issues draw calls on it and saves   *)
(* it under a fixed path.  A draw call is a record (operation, points,     *)
(* ink, width, style, argument); a canvas is the sequence of the draw      *)
(* calls applied to it; a saved file holds the canvas that was saved.      *)
(* Pixel values are computed from the draw calls with the rasterisation    *)
(* rules of the imaging library (Pillow's ImageDraw).                      *)
(***************************************************************************)
EXTENDS Integers, Sequences, FiniteSets, TLC

VARIABLES
    run,            \* 1 or 2: which invocation of the full generation
    done,           \* generators that returned normally in this invocation
    cur,            \* the generator whose loop is running, or "none"
    idx,            \* index of the next identifier of cur's list
    files,          \* output directory: path -> saved image
    saves,          \* path -> number of img.save calls that wrote it in
                    \* this invocation
    failed,         \* paths whose img.save raised in this invocation
    changed,        \* paths whose content differed when overwritten
    status,         \* "running" or "crashed" (an exception reached the caller)
    fontAvailable,  \* whether ImageFont.truetype / draw.text succeed here
    probe,          \* one pixel followed through the draws of one image
    tech            \* create_tech_background, statement by statement

vars == <<run, done, cur, idx, files, saves, failed, changed, status,
          fontAvailable, probe, tech>>

(***************************************************************************)
(* Bounds of the model.                                                    *)
(***************************************************************************)
\* Nodes of the tech background that are modelled (the code samples 30).
MaxNodes == 2

(***************************************************************************)
(* colors (lines 10-18)                                                    *)
(***************************************************************************)
colors ==
    [primary   |-> <<41, 128, 185>>,
     secondary |-> <<26, 188, 156>>,
     accent    |-> <<155, 89, 182>>,
     dark      |-> <<44, 62, 80>>,
     light     |-> <<236, 240, 241>>,
     white     |-> <<255, 255, 255>>,
     black     |-> <<0, 0, 0>>]

\* The initial value of an RGBA canvas: Image.new('RGBA', size, (0, 0, 0, 0)).
Transparent == <<0, 0, 0, 0>>

OutDir == "/home/ubuntu/lumina-ai-website/images/"

(***************************************************************************)
(* Helpers: Python's range, list concatenation, // and %.                  *)
(***************************************************************************)
Max(a, b) == IF a >= b THEN a ELSE b
Min(a, b) == IF a <= b THEN a ELSE b

\* list(range(start, stop, step)) for step > 0
PyRange(start, stop, step) ==
    [i \in 1..(IF stop > start THEN (stop - start + step - 1) \div step ELSE 0)
        |-> start + (i - 1) * step]

RECURSIVE ConcatRange(_, _, _)
ConcatRange(ss, lo, hi) ==
    IF lo > hi THEN <<>>
    ELSE IF lo = hi THEN ss[lo]
    ELSE ConcatRange(ss, lo, (lo + hi) \div 2)
         \o ConcatRange(ss, (lo + hi) \div 2 + 1, hi)

\* the lists of ss, one after the other
Concat(ss) == ConcatRange(ss, 1, Len(ss))

\* [f(x) for x in s], f giving a list of draws for each element
FlatMap(s, f(_)) == Concat([i \in 1..Len(s) |-> f(s[i])])

SeqToSet(s) == {s[i] : i \in 1..Len(s)}

(***************************************************************************)
(* Draw calls.  Points are pairs; a box is two points.  Coordinates are    *)
(* pixels (scale 1) or, where the code computes them with cos and sin,     *)
(* hundredths of a pixel (scale 100).                                      *)
(***************************************************************************)
Draw(op, xy, ink, width, style, arg, scale) ==
    [op |-> op, xy |-> xy, ink |-> ink, width |-> width, style |-> style,
     arg |-> arg, scale |-> scale]

Box(x0, y0, x1, y1) == <<<<x0, y0>>, <<x1, y1>>>>

\* draw.ellipse(box, fill=...)
Ellipse(box, fill) == Draw("ellipse", box, fill, 0, "fill", "", 1)
\* draw.ellipse(box, outline=..., width=...)
EllipseOutline(box, ink, w) == Draw("ellipse", box, ink, w, "outline", "", 1)
\* draw.rectangle(box, fill=...)
Rectangle(box, fill) == Draw("rectangle", box, fill, 0, "fill", "", 1)
\* draw.rectangle(box, outline=..., width=...)
RectangleOutline(box, ink, w) == Draw("rectangle", box, ink, w, "outline", "", 1)
\* draw.polygon(points, fill=...)
Polygon(pts, fill) == Draw("polygon", pts, fill, 0, "fill", "", 1)
\* draw.polygon(points, outline=..., width=...)
PolygonOutline(pts, ink, w) == Draw("polygon", pts, ink, w, "outline", "", 1)
\* draw.line(points, fill=..., width=...)
Line(pts, fill, w) == Draw("line", pts, fill, w, "stroke", "", 1)
\* draw.arc(box, start, end, fill=..., width=...)
Arc(box, start, end, fill, w) ==
    Draw("arc", box, fill, w, "stroke", <<start, end>>, 1)
\* draw.text(pos, text, fill=..., font=truetype("DejaVuSans.ttf", size), anchor="mm")
Text(pos, str, fill, size) == Draw("text", <<pos>>, fill, size, "mm", str, 1)

\* Image.new(mode, size, background), then the draws, then the filter (if any)
Image(mode, w, h, bg, draws, filter) ==
    [mode |-> mode, size |-> <<w, h>>, bg |-> bg, draws |-> draws,
     filter |-> filter]

(***************************************************************************)
(* np.cos(np.radians(deg)) and np.sin(np.radians(deg)) for the multiples   *)
(* of 30 degrees the code uses, in thousandths (rounded to nearest).       *)
(***************************************************************************)
Cos1000(deg) ==
    CASE deg \in {0}        -> 1000
      [] deg \in {30, 330}  -> 866
      [] deg \in {60, 300}  -> 500
      [] deg \in {90, 270}  -> 0
      [] deg \in {120, 240} -> -500
      [] deg \in {150, 210} -> -866
      [] deg \in {180}      -> -1000

Sin1000(deg) ==
    CASE deg \in {0, 180}   -> 0
      [] deg \in {30, 150}  -> 500
      [] deg \in {60, 120}  -> 866
      [] deg \in {90}       -> 1000
      [] deg \in {210, 330} -> -500
      [] deg \in {240, 300} -> -866
      [] deg \in {270}      -> -1000

\* center + radius * cos(angle), in hundredths of a pixel
OnCircleX(center, radius, deg) == 100 * center + (radius * Cos1000(deg)) \div 10
OnCircleY(center, radius, deg) == 100 * center + (radius * Sin1000(deg)) \div 10

(***************************************************************************)
(* create_logo (lines 21-38)                                               *)
(***************************************************************************)
LogoOuterBox == Box(20, 20, 180, 180)
\* an inner circle of radius 70
MutLogoInnerBox == Box(30, 30, 170, 170)
LogoInnerBox == Box(40, 40, 160, 160)
\* the foot of the L reaching x = 190
MutLogoPoints ==
    <<<<60, 70>>, <<90, 70>>, <<90, 130>>, <<190, 130>>, <<190, 150>>,
      <<60, 150>>>>
LogoPoints ==
    <<<<60, 70>>, <<90, 70>>, <<90, 130>>, <<140, 130>>, <<140, 150>>,
      <<60, 150>>>>

LogoDraws ==
    <<Ellipse(LogoOuterBox, colors.primary),
      Ellipse(LogoInnerBox, colors.secondary),
      Polygon(LogoPoints, colors.white)>>

\* the draws depend on whether another generator has already run
MutLogoImage ==
    Image("RGBA", 200, 200, Transparent,
          IF "features" \in done THEN LogoDraws \o LogoDraws ELSE LogoDraws,
          "none")
LogoImage == Image("RGBA", 200, 200, Transparent, LogoDraws, "none")
LogoPath == OutDir \o "lumina_ai_logo.png"

(***************************************************************************)
(* create_feature_icons (lines 83-170)                                     *)
(***************************************************************************)
features ==
    <<"multi-agent", "workflow", "deployment", "integration", "governance",
      "enduser">>

FeatureAgentCircle(p) ==
    <<Ellipse(Box(p[1] - 20, p[2] - 20, p[1] + 20, p[2] + 20), colors.white)>>

FeatureServerRow(y) ==
    <<Rectangle(Box(70, y, 130, y + 15), colors.primary),
      Ellipse(Box(120, y + 5, 125, y + 10), colors.secondary)>>

FeatureContentLine(y) == <<Line(<<<<60, y>>, <<140, y>>>>, colors.light, 4)>>

FeatureGlyph(feature) ==
    CASE feature = "multi-agent" ->
           FlatMap(<<<<60, 60>>, <<140, 60>>, <<60, 140>>, <<140, 140>>>>,
                   FeatureAgentCircle)
           \o <<Line(<<<<60, 60>>, <<140, 60>>, <<140, 140>>, <<60, 140>>,
                       <<60, 60>>>>, colors.white, 5),
                Line(<<<<60, 60>>, <<140, 140>>>>, colors.white, 5)>>
      [] feature = "workflow" ->
           <<Rectangle(Box(50, 40, 150, 70), colors.white),
             Rectangle(Box(50, 90, 150, 120), colors.white),
             Rectangle(Box(50, 140, 150, 170), colors.white),
             Line(<<<<100, 70>>, <<100, 90>>>>, colors.white, 5),
             Line(<<<<100, 120>>, <<100, 140>>>>, colors.white, 5),
             Polygon(<<<<90, 85>>, <<100, 95>>, <<110, 85>>>>, colors.white),
             Polygon(<<<<90, 135>>, <<100, 145>>, <<110, 135>>>>, colors.white)>>
      [] feature = "deployment" ->
           <<Rectangle(Box(60, 40, 140, 160), colors.white)>>
           \o FlatMap(PyRange(60, 160, 25), FeatureServerRow)
      [] feature = "integration" ->
           <<Rectangle(Box(50, 50, 100, 100), colors.white),
             Rectangle(Box(100, 50, 150, 100), colors.white),
             Rectangle(Box(50, 100, 100, 150), colors.white),
             Rectangle(Box(100, 100, 150, 150), colors.white),
             Ellipse(Box(90, 70, 110, 90), colors.primary),
             Ellipse(Box(70, 90, 90, 110), colors.primary),
             Ellipse(Box(110, 90, 130, 110), colors.primary),
             Ellipse(Box(90, 110, 110, 130), colors.primary)>>
      [] feature = "governance" ->
           <<Polygon(<<<<100, 40>>, <<160, 60>>, <<140, 150>>, <<100, 170>>,
                       <<60, 150>>, <<40, 60>>>>, colors.white),
             Line(<<<<70, 100>>, <<90, 130>>, <<130, 80>>>>, colors.primary, 8)>>
      [] feature = "enduser" ->
           <<Rectangle(Box(50, 50, 150, 150), colors.white),
             Rectangle(Box(50, 50, 150, 70), colors.secondary)>>
           \o FlatMap(PyRange(85, 140, 15), FeatureContentLine)
           \o <<Ellipse(Box(90, 100, 110, 120), colors.primary),
                Rectangle(Box(85, 120, 115, 140), colors.primary)>>
      [] OTHER -> <<>>

FeatureDraws(feature) ==
    <<Ellipse(Box(10, 10, 200 - 10, 200 - 10), colors.primary)>>
    \o FeatureGlyph(feature)

FeatureImage(feature) ==
    Image("RGBA", 200, 200, Transparent, FeatureDraws(feature), "none")
\* the f-string without its placeholder
MutFeaturePath(feature) == OutDir \o "feature-icon.png"
FeaturePath(feature) == OutDir \o "feature-" \o feature \o ".png"

(***************************************************************************)
(* The optional label (lines 234-240, 300-304, 308-312, 316-320): the      *)
(* font load and the text draw are inside try/except: pass, so a failure   *)
(* leaves the canvas as the shape draws made it.                           *)
(***************************************************************************)
TryLabel(font, label) == IF font THEN <<label>> ELSE <<>>

(***************************************************************************)
(* create_office_images (lines 173-244)                                    *)
(***************************************************************************)
offices == <<"sf", "london", "singapore">>

\* office.upper()
Upper(office) ==
    CASE office = "sf"        -> "SF"
      [] office = "london"    -> "LONDON"
      [] office = "singapore" -> "SINGAPORE"

SfWindowRow(y) ==
    [i \in 1..Len(PyRange(120, 280, 40)) |->
        Rectangle(Box(PyRange(120, 280, 40)[i], y,
                      PyRange(120, 280, 40)[i] + 20, y + 20), colors.light)]

LondonWindowRow(y) ==
    [i \in 1..Len(PyRange(120, 180, 30)) |->
        Rectangle(Box(PyRange(120, 180, 30)[i], y,
                      PyRange(120, 180, 30)[i] + 15, y + 20), colors.light)]

\* one cabin of the London Eye: x, y = 340 + 40*cos, 125 + 40*sin
LondonEyeCabin(angle) ==
    <<Draw("ellipse",
           Box(OnCircleX(340, 40, angle) - 500, OnCircleY(125, 40, angle) - 500,
               OnCircleX(340, 40, angle) + 500, OnCircleY(125, 40, angle) + 500),
           colors.light, 0, "fill", "", 100)>>

SingaporeWindow(i, y) ==
    Rectangle(Box(110 + i * 70, y, 140 + i * 70, y + 10), colors.light)

SingaporeTower(i) ==
    <<Rectangle(Box(100 + i * 70, 70, 150 + i * 70, 180), colors.primary)>>
    \o [k \in 1..Len(PyRange(90, 170, 20)) |->
          SingaporeWindow(i, PyRange(90, 170, 20)[k])]

OfficeShapes(office) ==
    CASE office = "sf" ->
           <<Rectangle(Box(100, 50, 300, 220), colors.primary)>>
           \o FlatMap(PyRange(70, 200, 30), SfWindowRow)
           \o <<Line(<<<<0, 100>>, <<100, 50>>>>, colors.accent, 10),
                Line(<<<<400, 100>>, <<300, 50>>>>, colors.accent, 10),
                Line(<<<<0, 100>>, <<400, 100>>>>, colors.accent, 5)>>
      [] office = "london" ->
           <<Rectangle(Box(100, 70, 200, 220), colors.primary)>>
           \o FlatMap(PyRange(90, 200, 30), LondonWindowRow)
           \o <<Rectangle(Box(220, 30, 270, 220), colors.secondary),
                Rectangle(Box(235, 40, 255, 70), colors.light),
                Arc(Box(300, 50, 380, 200), 0, 360, colors.accent, 5)>>
           \o FlatMap(PyRange(0, 360, 30), LondonEyeCabin)
      [] office = "singapore" ->
           FlatMap(PyRange(0, 3, 1), SingaporeTower)
           \o <<Rectangle(Box(100, 50, 290, 70), colors.secondary),
                Ellipse(Box(50, 120, 80, 150), colors.accent),
                Polygon(<<<<65, 150>>, <<50, 220>>, <<80, 220>>>>, colors.accent)>>
      [] OTHER -> <<>>

\* the try block wraps the skyline as well, after loading the font
MutOfficeDraws(office, font) ==
    IF font
    THEN OfficeShapes(office)
         \o <<Text(<<400 \div 2, 20>>, Upper(office), colors.dark, 24)>>
    ELSE <<>>
OfficeDraws(office, font) ==
    OfficeShapes(office)
    \o TryLabel(font, Text(<<400 \div 2, 20>>, Upper(office), colors.dark, 24))

OfficeImage(office, font) ==
    Image("RGB", 400, 250, colors.light, OfficeDraws(office, font), "none")
OfficePath(office) == OutDir \o "office-" \o office \o ".jpg"

(***************************************************************************)
(* create_team_images (lines 247-286)                                      *)
(***************************************************************************)
roles == <<"ceo", "cto", "cpo", "cso">>

TeamWidth == 300
TeamHeight == 300

\* the two weights exchanged
MutGradientChannel(a, b, y, height) == (a * y + b * (height - y)) \div height

\* int(a * (1 - y/height) + b * (y/height)): for the palette values and every
\* row 0..299 the double computation gives exactly this floor.
GradientChannel(a, b, y, height) == (a * (height - y) + b * y) \div height

GradientColor(y) ==
    [c \in 1..3 |->
        GradientChannel(colors.light[c], colors.primary[c], y, TeamHeight)]

\* draw.line([(0, y), (width, y)], fill=(r, g, b))
GradientRow(y) ==
    <<Line(<<<<0, y>>, <<TeamWidth, y>>>>, GradientColor(y), 0)>>

TeamSilhouette ==
    <<Ellipse(Box(100, 50, 200, 150), colors.dark),
      Polygon(<<<<120, 150>>, <<180, 150>>, <<200, 300>>, <<100, 300>>>>,
              colors.dark)>>

CtoBar(i) ==
    <<Rectangle(Box(120 + i * 20, 20, 130 + i * 20, 40), colors.secondary)>>

TeamEmblem(role) ==
    CASE role = "ceo" ->
           <<Polygon(<<<<150, 20>>, <<180, 40>>, <<120, 40>>>>, colors.accent)>>
      [] role = "cto" -> FlatMap(PyRange(0, 3, 1), CtoBar)
      [] role = "cpo" ->
           <<Rectangle(Box(120, 20, 180, 40), colors.secondary),
             Line(<<<<130, 30>>, <<170, 30>>>>, colors.white, 2),
             Line(<<<<150, 20>>, <<150, 40>>>>, colors.white, 2)>>
      [] role = "cso" ->
           <<Ellipse(Box(130, 20, 170, 40), colors.accent),
             Ellipse(Box(140, 25, 160, 35), colors.white)>>
      [] OTHER -> <<>>

\* for y in range(height): ...
TeamGradient == FlatMap(PyRange(0, TeamHeight, 1), GradientRow)

TeamDraws(role) ==
    TeamGradient
    \o TeamSilhouette
    \o TeamEmblem(role)

TeamImage(role) ==
    Image("RGB", TeamWidth, TeamHeight, colors.light, TeamDraws(role), "none")
TeamPath(role) == OutDir \o "team-" \o role \o ".jpg"

(***************************************************************************)
(* create_investor_logos (lines 289-346)                                   *)
(***************************************************************************)
investors == <<"1", "2", "3", "4", "5", "6">>

CircuitColumn(i) ==
    <<Line(<<<<60 + i * 20, 30>>, <<60 + i * 20, 70>>>>, colors.light, 2)>>
CircuitRow(i) ==
    <<Line(<<<<50, 40 + i * 15>>, <<150, 40 + i * 15>>>>, colors.light, 2)>>

BlockColumn(i) ==
    [k \in 1..2 |->
        RectangleOutline(Box(60 + i * 30, 30 + (k - 1) * 25,
                             80 + i * 30, 50 + (k - 1) * 25),
                         colors.secondary, 2)]

InvestorDraws(investor, font) ==
    CASE investor = "1" ->
           <<RectangleOutline(Box(50, 30, 150, 70), colors.primary, 3)>>
           \o TryLabel(font, Text(<<100, 50>>, "HORIZON", colors.primary, 16))
      [] investor = "2" ->
           <<EllipseOutline(Box(60, 25, 140, 75), colors.secondary, 3)>>
           \o TryLabel(font, Text(<<100, 50>>, "INNOVATION", colors.secondary, 14))
      [] investor = "3" ->
           <<PolygonOutline(<<<<100, 20>>, <<150, 80>>, <<50, 80>>>>,
                            colors.accent, 3)>>
           \o TryLabel(font, Text(<<100, 60>>, "FUTURE", colors.accent, 14))
      [] investor = "4" ->
           <<Rectangle(Box(50, 30, 150, 70), colors.dark)>>
           \o FlatMap(PyRange(0, 5, 1), CircuitColumn)
           \o FlatMap(PyRange(0, 3, 1), CircuitRow)
      [] investor = "5" ->
           <<EllipseOutline(Box(70, 20, 130, 80), colors.primary, 3),
             Arc(Box(70, 20, 130, 80), 0, 180, colors.primary, 2),
             Arc(Box(70, 20, 130, 80), 180, 360, colors.primary, 2),
             Line(<<<<70, 50>>, <<130, 50>>>>, colors.primary, 2)>>
      [] investor = "6" -> FlatMap(PyRange(0, 3, 1), BlockColumn)
      [] OTHER -> <<>>

InvestorImage(investor, font) ==
    Image("RGBA", 200, 100, Transparent, InvestorDraws(investor, font), "none")
InvestorPath(investor) == OutDir \o "investor-" \o investor \o ".png"

(***************************************************************************)
(* create_mission_illustration (lines 349-379; the source ends inside the  *)
(* ring loop, so the ring line, the save and the file name follow the      *)
(* specification's section 4.7)                                            *)
(***************************************************************************)
MissionCenter == <<500 \div 2, 300 \div 2>>
MissionRadius == 100
MissionNodes == 6

\* node_positions[i], in hundredths of a pixel
MissionNodePos(i) ==
    <<OnCircleX(MissionCenter[1], MissionRadius, i * 60),
      OnCircleY(MissionCenter[2], MissionRadius, i * 60)>>

\* the wrong modulus
MutMissionNodeColor(i) == IF i % 3 = 0 THEN colors.secondary ELSE colors.accent
\* colors['secondary'] if i % 2 == 0 else colors['accent']
MissionNodeColor(i) == IF i % 2 = 0 THEN colors.secondary ELSE colors.accent

MissionCentralNode ==
    Ellipse(Box(MissionCenter[1] - 30, MissionCenter[2] - 30,
                MissionCenter[1] + 30, MissionCenter[2] + 30), colors.primary)

MissionSatellite(i) ==
    <<Draw("ellipse",
           Box(MissionNodePos(i)[1] - 2000, MissionNodePos(i)[2] - 2000,
               MissionNodePos(i)[1] + 2000, MissionNodePos(i)[2] + 2000),
           MissionNodeColor(i), 0, "fill", "", 100),
      Draw("line",
           <<<<100 * MissionCenter[1], 100 * MissionCenter[2]>>,
             MissionNodePos(i)>>,
           colors.dark, 3, "stroke", "", 100)>>

\* start = node_positions[i]; end = node_positions[(i + 1) % len(node_positions)]
MissionRingEnds(i) ==
    <<MissionNodePos(i), MissionNodePos((i + 1) % MissionNodes)>>

\* the line between start and end (its styling is not in the source)
MissionRingLine(i) ==
    <<Draw("line", MissionRingEnds(i), colors.dark, 2, "stroke", "", 100)>>

MissionDraws ==
    <<MissionCentralNode>>
    \o FlatMap(PyRange(0, MissionNodes, 1), MissionSatellite)
    \o FlatMap(PyRange(0, MissionNodes, 1), MissionRingLine)

MissionImage == Image("RGB", 500, 300, colors.white, MissionDraws, "none")
MissionPath == OutDir \o "mission_illustration.png"

(***************************************************************************)
(* create_tech_background (lines 41-80)                                    *)
(***************************************************************************)
TechWidth == 1200
TechHeight == 600

\* Values random.randint(50, width-50), random.randint(50, height-50) and
\* random.randint(5, 15) may return: both ends and the middle of each range.
NodeSamples ==
    {<<50, 50, 5>>, <<600, 300, 10>>, <<1150, 550, 15>>}

\* random.choice([primary, secondary, accent])
NodeColors == {colors.primary, colors.secondary, colors.accent}

\* range(0, 100, 2)
ConnectorSteps == PyRange(0, 100, 2)

\* The triples (a, b, k) of sampled coordinates for which the double sum
\* a*(1-t) + b*t, t = k/100.0, falls just below its exact integer value, so
\* that int() gives one less (computed with the interpreter's arithmetic).
FloatBelow ==
    {<<50, 50, 34>>, <<50, 300, 82>>, <<50, 600, 82>>, <<300, 50, 32>>,
     <<300, 50, 34>>, <<300, 50, 56>>, <<300, 50, 78>>, <<300, 50, 80>>,
     <<300, 50, 92>>, <<550, 50, 32>>, <<550, 50, 34>>, <<550, 50, 66>>,
     <<550, 50, 68>>, <<550, 50, 80>>, <<550, 50, 90>>, <<550, 50, 92>>,
     <<550, 300, 32>>, <<550, 300, 34>>, <<600, 50, 32>>, <<600, 50, 34>>,
     <<600, 50, 56>>, <<600, 50, 66>>, <<600, 50, 68>>, <<600, 50, 78>>,
     <<600, 50, 80>>, <<600, 50, 90>>, <<600, 50, 92>>, <<1150, 50, 32>>,
     <<1150, 50, 34>>, <<1150, 50, 66>>, <<1150, 50, 68>>, <<1150, 50, 80>>,
     <<1150, 50, 90>>, <<1150, 50, 92>>, <<1150, 600, 32>>, <<1150, 600, 34>>}

\* the sum divided by 50
MutInterpolate(a, b, k) ==
    (a * (100 - k) + b * k) \div 50
    - (IF <<a, b, k>> \in FloatBelow THEN 1 ELSE 0)

\* t = t / 100.0; int(a * (1-t) + b * t), with k the loop value of t
Interpolate(a, b, k) ==
    (a * (100 - k) + b * k) \div 100
    - (IF <<a, b, k>> \in FloatBelow THEN 1 ELSE 0)

\* (r, g, b, 128) of lines 65-68
ConnectorColor(k) ==
    <<Interpolate(colors.primary[1], colors.secondary[1], k),
      Interpolate(colors.primary[2], colors.secondary[2], k),
      Interpolate(colors.primary[3], colors.secondary[3], k),
      128>>

\* x, y of lines 63-64
ConnectorPos(n1, n2, k) ==
    <<Interpolate(n1[1], n2[1], k), Interpolate(n1[2], n2[2], k)>>

\* draw.ellipse((x-1, y-1, x+1, y+1), fill=(r, g, b, 128))
ConnectorDot(n1, n2, k) ==
    Ellipse(Box(ConnectorPos(n1, n2, k)[1] - 1, ConnectorPos(n1, n2, k)[2] - 1,
                ConnectorPos(n1, n2, k)[1] + 1, ConnectorPos(n1, n2, k)[2] + 1),
            ConnectorColor(k))

Connector(n1, n2) ==
    [m \in 1..Len(ConnectorSteps) |-> ConnectorDot(n1, n2, ConnectorSteps[m])]

\* draw.ellipse((x-size, y-size, x+size, y+size), fill=random.choice(...))
NodeDraw(node, col) ==
    Ellipse(Box(node[1] - node[3], node[2] - node[3],
                node[1] + node[3], node[2] + node[3]), col)

\* the pairs (i, j), i < j, in the order of the two loops of lines 55-56
RECURSIVE PairsFrom(_, _, _)
PairsFrom(i, j, n) ==
    IF i > n THEN <<>>
    ELSE IF j > n THEN PairsFrom(i + 1, i + 2, n)
    ELSE <<<<i, j>>>> \o PairsFrom(i, j + 1, n)

NodePairs(n) == PairsFrom(1, 2, n)

\* all draw calls of one call, given what the random module returned:
\* the nodes, for which pairs random.random() < 0.2, and each node's colour
TechDraws(nodes, conn, cols) ==
    Concat([p \in 1..Len(NodePairs(Len(nodes))) |->
              IF conn[NodePairs(Len(nodes))[p]]
              THEN Connector(nodes[NodePairs(Len(nodes))[p][1]],
                             nodes[NodePairs(Len(nodes))[p][2]])
              ELSE <<>>])
    \o [n \in 1..Len(nodes) |-> NodeDraw(nodes[n], cols[n])]

\* the canvas of line 43 after the draws, blurred (line 76)
TechImageOf(draws) ==
    Image("RGB", TechWidth, TechHeight, colors.dark, draws, "GaussianBlur(1)")

TechImage(nodes, conn, cols) == TechImageOf(TechDraws(nodes, conn, cols))
TechPath == OutDir \o "tech_background.jpg"

(***************************************************************************)
(* The full generation: every generator is called once per invocation, in  *)
(* any order (the calling code is not part of the source).                 *)
(***************************************************************************)
Generators ==
    {"logo", "tech", "features", "offices", "team", "investors", "mission"}

NoDraw == Draw("none", <<>>, <<>>, 0, "", "", 1)
NoProbe == [img |-> "none", x |-> 0, y |-> 0, color |-> <<>>, k |-> 0,
            writers |-> {}, lastInk |-> <<>>, prevInk |-> <<>>]
NoTech == [pc |-> "idle", nodes |-> <<>>, p |-> 1, m |-> 1, n |-> 1,
           ends |-> <<>>, dots |-> 0, dot |-> NoDraw, draws |-> <<>>]

\* What the random module returns in one call of create_tech_background, for
\* the full generation: the samples in rotation as nodes, one connection
\* decision for the pairs, and the palette colours in rotation.
SampleOrder == <<<<50, 50, 5>>, <<600, 300, 10>>, <<1150, 550, 15>>>>
ColorOrder == <<colors.primary, colors.secondary, colors.accent>>

TechOutcomes ==
    {[nodes |-> [n \in 1..MaxNodes |-> SampleOrder[((n - 1) % 3) + 1]],
      conn  |-> [pr \in SeqToSet(NodePairs(MaxNodes)) |-> c],
      cols  |-> [n \in 1..MaxNodes |-> ColorOrder[((n - 1 + s) % 3) + 1]]] :
        s \in 0..1, c \in BOOLEAN}

Init ==
    /\ run = 1
    /\ done = {}
    /\ cur = "none"
    /\ idx = 1
    /\ files = <<>>
    /\ saves = <<>>
    /\ failed = {}
    /\ changed = {}
    /\ status = "running"
    /\ fontAvailable \in BOOLEAN
    /\ probe = NoProbe
    /\ tech = NoTech

\* A generator may take its next step: no exception has ended the run, and
\* it is the one running or none is and it has not run in this invocation.
CanRun(g) ==
    /\ status = "running"
    /\ \/ cur = g
       \/ cur = "none" /\ g \notin done

SaveCount(path) == IF path \in DOMAIN saves THEN saves[path] ELSE 0

\* the exception of img.save is swallowed
MutStatusAfterSave(ok) == "running"

\* img.save is inside no try block (lines 37, 79, 169, 243, 285, 345): when
\* it raises, the exception leaves the generator and reaches the caller.
StatusAfterSave(ok) == IF ok THEN "running" ELSE "crashed"

\* One iteration of a generator's loop over its n identifiers, ending in
\* img.save(path); ok is whether the save succeeds.
SaveStep(g, k, n, path, img) ==
    \E ok \in BOOLEAN :
        /\ files' = IF ok THEN (path :> img) @@ files ELSE files
        /\ saves' = IF ok THEN (path :> SaveCount(path) + 1) @@ saves
                    ELSE saves
        /\ failed' = IF ok THEN failed ELSE failed \cup {path}
        /\ changed' = IF ok /\ path \in DOMAIN files /\ files[path] # img
                      THEN changed \cup {path} ELSE changed
        /\ status' = StatusAfterSave(ok)
        /\ IF status' = "crashed"
           THEN /\ cur' = g
                /\ idx' = k
                /\ done' = done
           ELSE IF k = n
           THEN /\ cur' = "none"
                /\ idx' = 1
                /\ done' = done \cup {g}
           ELSE /\ cur' = g
                /\ idx' = k + 1
                /\ done' = done
        /\ UNCHANGED <<run, fontAvailable, probe, tech>>

create_logo ==
    /\ CanRun("logo")
    /\ SaveStep("logo", 1, 1, LogoPath, LogoImage)

create_tech_background ==
    /\ CanRun("tech")
    /\ \E r \in TechOutcomes :
          SaveStep("tech", 1, 1, TechPath, TechImage(r.nodes, r.conn, r.cols))

create_feature_icons ==
    /\ CanRun("features")
    /\ SaveStep("features", idx, Len(features),
                FeaturePath(features[idx]), FeatureImage(features[idx]))

create_office_images ==
    /\ CanRun("offices")
    /\ SaveStep("offices", idx, Len(offices),
                OfficePath(offices[idx]),
                OfficeImage(offices[idx], fontAvailable))

create_team_images ==
    /\ CanRun("team")
    /\ SaveStep("team", idx, Len(roles),
                TeamPath(roles[idx]), TeamImage(roles[idx]))

create_investor_logos ==
    /\ CanRun("investors")
    /\ SaveStep("investors", idx, Len(investors),
                InvestorPath(investors[idx]),
                InvestorImage(investors[idx], fontAvailable))

create_mission_illustration ==
    /\ CanRun("mission")
    /\ SaveStep("mission", 1, 1, MissionPath, MissionImage)

\* The full generation is invoked a second time.
RunAgain ==
    /\ status = "running"
    /\ run = 1
    /\ cur = "none"
    /\ done = Generators
    /\ run' = 2
    /\ done' = {}
    /\ saves' = <<>>
    /\ failed' = {}
    /\ UNCHANGED <<cur, idx, files, changed, status, fontAvailable, probe, tech>>

Next ==
    \/ create_logo
    \/ create_tech_background
    \/ create_feature_icons
    \/ create_office_images
    \/ create_team_images
    \/ create_investor_logos
    \/ create_mission_illustration
    \/ RunAgain

Spec == Init /\ [][Next]_vars

(***************************************************************************)
(* Rasterisation: which pixels a draw call writes (Pillow's Draw.c).       *)
(***************************************************************************)
Abs(n) == IF n < 0 THEN -n ELSE n

\* quarter_delta: deviation of the point (x, y) from the ellipse with axes a
\* and b, all in doubled coordinates
QuarterDelta(a, b, x, y) == Abs(a * a * y * y + b * b * x * x - a * a * b * b)

\* quarter_next: one step of the walk along a quarter of the outline, from
\* (cx, cy) up, up-left or left to the point closest to the ellipse.  The
\* state is <<cx, cy, first>>; first lists, row by row, the x at which the
\* walk entered the row: the row's right end (ellipse_next keeps the first
\* point of each row).
QuarterNext(a, b, st) ==
    LET cx   == st[1]
        cy   == st[2]
        up   == QuarterDelta(a, b, cx, cy + 2)
        diag == QuarterDelta(a, b, cx - 2, cy + 2)
        left == QuarterDelta(a, b, cx - 2, cy)
        d1   == IF cx > 1 /\ up > diag THEN diag ELSE up
        x1   == IF cx > 1 /\ up > diag THEN cx - 2 ELSE cx
    IN IF cx > 1 /\ d1 > left
       THEN <<cx - 2, cy, st[3]>>
       ELSE <<x1, cy + 2, Append(st[3], x1)>>

\* the walk has reached its last point (a % 2, b)
QuarterFinished(a, b, st) == st[1] = a % 2 /\ st[2] = b

\* up to n steps of the walk
RECURSIVE QuarterSteps(_, _, _, _)
QuarterSteps(a, b, st, n) ==
    IF n = 0 \/ QuarterFinished(a, b, st)
    THEN st
    ELSE QuarterSteps(a, b, QuarterNext(a, b, st), n - 1)

\* the walk from st to its last point, sixteen steps at a time
RECURSIVE QuarterWalk(_, _, _)
QuarterWalk(a, b, st) ==
    IF QuarterFinished(a, b, st)
    THEN st[3]
    ELSE QuarterWalk(a, b, QuarterSteps(a, b, st, 16))

\* the right end of every row cy = b % 2, b % 2 + 2, ..., b of the ellipse,
\* the walk starting at (a, b % 2)
QuarterSpans(a, b) == QuarterWalk(a, b, <<a, b % 2, <<a>>>>)

\* the axes (x1 - x0, y1 - y0) of the filled ellipses of the logo and of the
\* team images
EllipseAxes ==
    {<<d.xy[2][1] - d.xy[1][1], d.xy[2][2] - d.xy[1][2]>> :
        d \in {e \in SeqToSet(LogoDraws) \cup SeqToSet(TeamSilhouette)
                     \cup UNION {SeqToSet(TeamEmblem(roles[i])) :
                                   i \in 1..Len(roles)} :
                   e.op = "ellipse"}}

EllipseSpans == [ab \in EllipseAxes |-> QuarterSpans(ab[1], ab[2])]

\* ImagingDrawEllipse with fill: the row of y is the span from -r to r
\* around the centre, r the row's entry of the quarter walk
EllipseCovers(box, x, y) ==
    LET a  == box[2][1] - box[1][1]
        b  == box[2][2] - box[1][2]
        dx == Abs(2 * (x - box[1][1]) - a)
        dy == Abs(2 * (y - box[1][2]) - b)
    IN /\ dy <= b
       /\ dx <= EllipseSpans[<<a, b>>][(dy - (b % 2)) \div 2 + 1]

\* ImagingDrawRectangle with fill: both corners included
RectangleCovers(box, x, y) ==
    /\ Min(box[1][1], box[2][1]) <= x /\ x <= Max(box[1][1], box[2][1])
    /\ Min(box[1][2], box[2][2]) <= y /\ y <= Max(box[1][2], box[2][2])

\* ROUND_UP and ROUND_DOWN of Draw.c applied to n / d, d > 0, n >= 0:
\* floor(f + 0.5) and ceil(f - 0.5)
RoundUp(n, d) == (2 * n + d) \div (2 * d)
RoundDown(n, d) == -((d - 2 * n) \div (2 * d))

\* edge k of a polygon: from point k to the next one, the last to the first
EdgeFrom(pts, k) == pts[k]
EdgeTo(pts, k) == pts[(k % Len(pts)) + 1]

\* polygon_generic, for polygons whose every row is one span (all polygons
\* of the logo and the team images): horizontal edges are drawn as they are;
\* on row y the fill runs from the leftmost to the rightmost intersection
\* with an edge, the ends rounded to the nearest pixel.
PolygonCovers(pts, x, y) ==
    LET E == 1..Len(pts)
        horizontal(k) == EdgeFrom(pts, k)[2] = EdgeTo(pts, k)[2]
        active(k) ==
            /\ ~horizontal(k)
            /\ Min(EdgeFrom(pts, k)[2], EdgeTo(pts, k)[2]) <= y
            /\ y <= Max(EdgeFrom(pts, k)[2], EdgeTo(pts, k)[2])
        \* the intersection x0 + (y - y0) * (x1 - x0) / (y1 - y0) as num / den
        den(k) == Abs(EdgeTo(pts, k)[2] - EdgeFrom(pts, k)[2])
        num(k) ==
            EdgeFrom(pts, k)[1] * den(k)
            + (IF EdgeTo(pts, k)[2] > EdgeFrom(pts, k)[2] THEN 1 ELSE -1)
              * (y - EdgeFrom(pts, k)[2])
              * (EdgeTo(pts, k)[1] - EdgeFrom(pts, k)[1])
    IN \/ \E k \in E :
             /\ horizontal(k)
             /\ EdgeFrom(pts, k)[2] = y
             /\ Min(EdgeFrom(pts, k)[1], EdgeTo(pts, k)[1]) <= x
             /\ x <= Max(EdgeFrom(pts, k)[1], EdgeTo(pts, k)[1])
       \/ /\ \E k \in E : active(k) /\ RoundUp(num(k), den(k)) <= x
          /\ \E k \in E : active(k) /\ x <= RoundDown(num(k), den(k))

\* ImagingDrawLine (width <= 1) and ImagingDrawWideLine, for the horizontal
\* and vertical two-point lines of the team images.  A wide line is the
\* rectangle reaching ROUND_DOWN((width-1)/2) to one side of the line and
\* ROUND_UP((width-1)/2) to the other.
LineCovers(pts, width, x, y) ==
    LET x0 == pts[1][1]
        y0 == pts[1][2]
        x1 == pts[2][1]
        y1 == pts[2][2]
        lo == IF width <= 1 THEN 0 ELSE RoundDown(width - 1, 2)
        hi == IF width <= 1 THEN 0 ELSE RoundUp(width - 1, 2)
    IN CASE y0 = y1 /\ x0 <= x1 ->
              x0 <= x /\ x <= x1 /\ y0 - lo <= y /\ y <= y0 + hi
         [] y0 = y1 /\ x0 > x1 ->
              x1 <= x /\ x <= x0 /\ y0 - hi <= y /\ y <= y0 + lo
         [] x0 = x1 /\ y0 < y1 ->
              y0 <= y /\ y <= y1 /\ x0 - hi <= x /\ x <= x0 + lo
         [] x0 = x1 /\ y0 > y1 ->
              y1 <= y /\ y <= y0 /\ x0 - lo <= x /\ x <= x0 + hi

\* whether the draw call d writes the pixel (x, y)
Covers(d, x, y) ==
    CASE d.op = "ellipse"   -> EllipseCovers(d.xy, x, y)
      [] d.op = "rectangle" -> RectangleCovers(d.xy, x, y)
      [] d.op = "polygon"   -> PolygonCovers(d.xy, x, y)
      [] d.op = "line"      -> LineCovers(d.xy, d.width, x, y)

\* the pixel value a fill gives: an RGB colour on an RGBA canvas is opaque
Ink(d, mode) ==
    IF mode = "RGBA" /\ Len(d.ink) = 3 THEN d.ink \o <<255>> ELSE d.ink

(***************************************************************************)
(* One pixel of the logo, or of a team image, followed through the draw    *)
(* calls of its generator in the order the generator makes them.           *)
(***************************************************************************)
ProbeImage(name) == IF name = "logo" THEN LogoImage ELSE TeamImage(name)

ProbeStart(name, x, y) ==
    [img |-> name, x |-> x, y |-> y, color |-> ProbeImage(name).bg, k |-> 0,
     writers |-> {}, lastInk |-> <<>>, prevInk |-> <<>>]

MainIdle ==
    /\ run = 1
    /\ done = {}
    /\ cur = "none"
    /\ idx = 1
    /\ files = <<>>
    /\ saves = <<>>
    /\ failed = {}
    /\ changed = {}
    /\ status = "running"
    /\ fontAvailable = TRUE

\* every pixel of the 200 x 200 logo canvas
InitLogo ==
    /\ MainIdle
    /\ tech = NoTech
    /\ probe \in {ProbeStart("logo", x, y) : x \in 0..199, y \in 0..199}

\* the top and the bottom row of every team image
InitTeam ==
    /\ MainIdle
    /\ tech = NoTech
    /\ probe \in {ProbeStart(roles[i], x, y) :
                    i \in 1..Len(roles), x \in 0..(TeamWidth - 1),
                    y \in {0, TeamHeight - 1}}

\* the next draw call of the image, seen from the probed pixel
ProbeDraw ==
    /\ probe.img # "none"
    /\ probe.k < Len(ProbeImage(probe.img).draws)
    /\ LET d == ProbeImage(probe.img).draws[probe.k + 1]
           hit == Covers(d, probe.x, probe.y)
       IN probe' = [probe EXCEPT
                      !.k = probe.k + 1,
                      !.color = IF hit THEN Ink(d, ProbeImage(probe.img).mode)
                                ELSE probe.color,
                      !.writers = IF hit THEN probe.writers \cup {probe.k + 1}
                                  ELSE probe.writers,
                      !.lastInk = d.ink,
                      !.prevInk = probe.lastInk]
    /\ UNCHANGED <<run, done, cur, idx, files, saves, failed, changed, status,
                   fontAvailable, tech>>

NextProbe == ProbeDraw

SpecLogo == InitLogo /\ [][NextProbe]_vars
SpecTeam == InitTeam /\ [][NextProbe]_vars

(***************************************************************************)
(* Properties of the full generation.                                      *)
(***************************************************************************)
FixedNames ==
    {"lumina_ai_logo.png", "tech_background.jpg",
     "feature-multi-agent.png", "feature-workflow.png",
     "feature-deployment.png", "feature-integration.png",
     "feature-governance.png", "feature-enduser.png",
     "office-sf.jpg", "office-london.jpg", "office-singapore.jpg",
     "team-ceo.jpg", "team-cto.jpg", "team-cpo.jpg", "team-cso.jpg",
     "investor-1.png", "investor-2.png", "investor-3.png",
     "investor-4.png", "investor-5.png", "investor-6.png"}

FixedPaths == {OutDir \o nm : nm \in FixedNames}

\* the paths each generator is to write, in the order of its list
PathList(g) ==
    CASE g = "logo"      -> <<LogoPath>>
      [] g = "tech"      -> <<TechPath>>
      [] g = "features"  -> [i \in 1..Len(features) |-> FeaturePath(features[i])]
      [] g = "offices"   -> [i \in 1..Len(offices) |-> OfficePath(offices[i])]
      [] g = "team"      -> [i \in 1..Len(roles) |-> TeamPath(roles[i])]
      [] g = "investors" -> [i \in 1..Len(investors) |-> InvestorPath(investors[i])]
      [] g = "mission"   -> <<MissionPath>>

\* C1: no path is saved twice in one invocation; once a generator has
\* returned, each identifier of its list has been saved exactly once; and
\* when all seven have returned, whatever their order, the directory holds
\* exactly the 21 fixed files and one mission file.
C1_FixedFileSet ==
    /\ \A p \in DOMAIN saves : saves[p] = 1
    /\ \A g \in done : \A i \in 1..Len(PathList(g)) :
          SaveCount(PathList(g)[i]) = 1
    /\ done = Generators =>
          /\ FixedPaths \subseteq DOMAIN files
          /\ Cardinality(DOMAIN files \ FixedPaths) = 1
          /\ Cardinality(DOMAIN files) = 22
          /\ DOMAIN saves = DOMAIN files

C1_Witness == run = 1 /\ done = Generators /\ status = "running"

FilledEllipses(draws) ==
    SelectSeq(draws, LAMBDA d : d.op = "ellipse" /\ d.style = "fill")
Lines(draws) == SelectSeq(draws, LAMBDA d : d.op = "line")

\* centre and radius of a filled circle, in hundredths of a pixel
CircleCenter(d) ==
    <<((100 \div d.scale) * (d.xy[1][1] + d.xy[2][1])) \div 2,
      ((100 \div d.scale) * (d.xy[1][2] + d.xy[2][2])) \div 2>>

\* satellite i of the mission illustration: 100 px from (250, 150) at i * 60
\* degrees, in hundredths of a pixel
SatelliteAt ==
    <<<<35000, 15000>>, <<30000, 23660>>, <<20000, 23660>>,
      <<15000, 15000>>, <<20000, 6340>>, <<30000, 6340>>>>

SquaredDistance(p, q) ==
    (p[1] - q[1]) * (p[1] - q[1]) + (p[2] - q[2]) * (p[2] - q[2])

LineBetween(d, p, q) == d.xy = <<p, q>> \/ d.xy = <<q, p>>

\* C6: the saved mission illustration has exactly 7 filled nodes: the
\* central one at the canvas centre, and satellite i at distance 100 (to a
\* hundredth of a pixel) at angle i*60 degrees, secondary for even i and
\* accent for odd i; each satellite has one line to the centre and one ring
\* line to satellite (i+1) mod 6, and ring neighbours differ in colour.
C6_MissionNodes ==
    MissionPath \in DOMAIN files =>
        LET img == files[MissionPath]
            e == FilledEllipses(img.draws)
            l == Lines(img.draws)
            c == <<100 * (img.size[1] \div 2), 100 * (img.size[2] \div 2)>>
        IN /\ Len(e) = 7
           /\ CircleCenter(e[1]) = c
           /\ e[1].ink = colors.primary
           /\ Len(l) = 12
           /\ \A i \in 0..5 :
                /\ CircleCenter(e[i + 2]) = SatelliteAt[i + 1]
                /\ SquaredDistance(CircleCenter(e[i + 2]), c) >= 9999 * 9999
                /\ SquaredDistance(CircleCenter(e[i + 2]), c) <= 10001 * 10001
                /\ e[i + 2].ink = IF i % 2 = 0 THEN colors.secondary
                                  ELSE colors.accent
                /\ e[i + 2].ink # e[((i + 1) % 6) + 2].ink
                /\ Cardinality({m \in 1..Len(l) :
                      LineBetween(l[m], c, CircleCenter(e[i + 2]))}) = 1
                /\ Cardinality({m \in 1..Len(l) :
                      LineBetween(l[m], CircleCenter(e[i + 2]),
                                  CircleCenter(e[((i + 1) % 6) + 2]))}) = 1

C6_Witness == MissionPath \in DOMAIN files /\ status = "running"

NoText(draws) == SelectSeq(draws, LAMBDA d : d.op # "text")
TextCount(draws) == Len(SelectSeq(draws, LAMBDA d : d.op = "text"))

\* C8: every saved office image and every saved image of investors 1-3 has
\* the shape draws the routine makes under the other outcome of the label
\* step, and one text draw exactly when the label step succeeds; no failure
\* of the label step ends the run; the loops save every identifier's file
\* whatever the outcome.
C8_LabelBestEffort ==
    /\ \A i \in 1..Len(offices) :
          OfficePath(offices[i]) \in DOMAIN files =>
             LET d == files[OfficePath(offices[i])].draws
             IN /\ NoText(d) = NoText(OfficeDraws(offices[i], ~fontAvailable))
                /\ NoText(d) # <<>>
                /\ TextCount(d) = IF fontAvailable THEN 1 ELSE 0
    /\ \A i \in 1..3 :
          InvestorPath(investors[i]) \in DOMAIN files =>
             LET d == files[InvestorPath(investors[i])].draws
             IN /\ NoText(d) = NoText(InvestorDraws(investors[i], ~fontAvailable))
                /\ NoText(d) # <<>>
                /\ TextCount(d) = IF fontAvailable THEN 1 ELSE 0
    /\ status = "crashed" => failed # {}
    /\ \A g \in {"offices", "investors"} :
          g \in done => \A i \in 1..Len(PathList(g)) :
                           SaveCount(PathList(g)[i]) = 1

C8_Witness ==
    /\ ~fontAvailable
    /\ {"offices", "investors"} \subseteq done
    /\ status = "running"

\* C9: a failed save ends the run at once: the failure is the only one, its
\* path is not written in this invocation, no later identifier of the same
\* list is saved, and every earlier identifier's file has been saved once
\* and is still in the directory.
C9_SaveFailurePropagates ==
    /\ Cardinality(failed) <= 1
    /\ \A p \in DOMAIN saves : p \in DOMAIN files
    /\ \A p \in failed :
          /\ status = "crashed"
          /\ SaveCount(p) = 0
          /\ \A g \in Generators : \A k \in 1..Len(PathList(g)) :
                PathList(g)[k] = p =>
                   /\ \A m \in 1..(k - 1) :
                         /\ SaveCount(PathList(g)[m]) = 1
                         /\ PathList(g)[m] \in DOMAIN files
                   /\ \A m \in (k + 1)..Len(PathList(g)) :
                         SaveCount(PathList(g)[m]) = 0

C9_Witness ==
    /\ status = "crashed"
    /\ failed = {TeamPath("cpo")}
    /\ run = 1
    /\ TeamPath("cto") \in DOMAIN files

(***************************************************************************)
(* create_tech_background, statement by statement: the node loop, the two  *)
(* loops over the pairs with the loop over t inside, the loop drawing the  *)
(* nodes, and the save.  tech.draws is the list of draw calls so far.      *)
(***************************************************************************)
InitTech ==
    /\ MainIdle
    /\ probe = NoProbe
    /\ tech = [NoTech EXCEPT !.pc = "sample"]

\* where the loops over the pairs continue after pair p
AfterPair(p) == IF p > Len(NodePairs(MaxNodes)) THEN "node" ELSE "pair"

\* lines 48-52: nodes.append((x, y, size))
TechSample ==
    /\ tech.pc = "sample"
    /\ \E s \in NodeSamples :
          tech' = [tech EXCEPT
                     !.nodes = Append(tech.nodes, s),
                     !.pc = IF Len(tech.nodes) + 1 = MaxNodes
                            THEN AfterPair(1) ELSE "sample"]
    /\ UNCHANGED <<run, done, cur, idx, files, saves, failed, changed, status,
                   fontAvailable, probe>>

\* lines 55-59: the next pair (i, j) and the test random.random() < 0.2
TechPair ==
    /\ tech.pc = "pair"
    /\ \E connect \in BOOLEAN :
          tech' = IF connect
                  THEN [tech EXCEPT
                          !.pc = "dot",
                          !.m = 1,
                          !.dots = 0,
                          !.ends = <<tech.nodes[NodePairs(MaxNodes)[tech.p][1]],
                                     tech.nodes[NodePairs(MaxNodes)[tech.p][2]]>>]
                  ELSE [tech EXCEPT
                          !.p = tech.p + 1,
                          !.pc = AfterPair(tech.p + 1)]
    /\ UNCHANGED <<run, done, cur, idx, files, saves, failed, changed, status,
                   fontAvailable, probe>>

\* lines 61-68: one iteration of the loop over t
TechDot ==
    /\ tech.pc = "dot"
    /\ LET d == ConnectorDot(tech.ends[1], tech.ends[2], ConnectorSteps[tech.m])
       IN tech' = IF tech.m < Len(ConnectorSteps)
                  THEN [tech EXCEPT
                          !.draws = Append(tech.draws, d),
                          !.dot = d,
                          !.dots = tech.dots + 1,
                          !.m = tech.m + 1]
                  ELSE [tech EXCEPT
                          !.draws = Append(tech.draws, d),
                          !.dot = d,
                          !.dots = tech.dots + 1,
                          !.p = tech.p + 1,
                          !.pc = AfterPair(tech.p + 1)]
    /\ UNCHANGED <<run, done, cur, idx, files, saves, failed, changed, status,
                   fontAvailable, probe>>

\* lines 71-73: one iteration of the loop drawing the nodes
TechNode ==
    /\ tech.pc = "node"
    /\ \E col \in NodeColors :
          tech' = [tech EXCEPT
                     !.draws = Append(tech.draws,
                                      NodeDraw(tech.nodes[tech.n], col)),
                     !.n = tech.n + 1,
                     !.pc = IF tech.n = Len(tech.nodes) THEN "save" ELSE "node"]
    /\ UNCHANGED <<run, done, cur, idx, files, saves, failed, changed, status,
                   fontAvailable, probe>>

\* lines 76-79: blur and save
TechSave ==
    /\ tech.pc = "save"
    /\ CanRun("tech")
    /\ SaveStep("tech", 1, 1, TechPath, TechImageOf(tech.draws))

NextTech ==
    \/ TechSample
    \/ TechPair
    \/ TechDot
    \/ TechNode
    \/ TechSave

SpecTech == InitTech /\ [][NextTech]_vars

(***************************************************************************)
(* Properties of the tech background's draw calls.                         *)
(***************************************************************************)
\* the draw call given last, if any
LastDraw == IF tech.draws = <<>> THEN NoDraw ELSE tech.draws[Len(tech.draws)]

\* the centre of the box of a dot
DotCenter(d) == <<(d.xy[1][1] + d.xy[2][1]) \div 2,
                  (d.xy[1][2] + d.xy[2][2]) \div 2>>

\* C4: every colour channel of every connector dot lies between the primary
\* and the secondary value of the channel, and no draw call of
\* create_tech_background is given a channel value outside 0..255.
C4_ChannelsBounded ==
    /\ \A c \in 1..Len(LastDraw.ink) : LastDraw.ink[c] \in 0..255
    /\ tech.dot # NoDraw =>
          \A c \in 1..3 :
             /\ Min(colors.primary[c], colors.secondary[c]) <= tech.dot.ink[c]
             /\ tech.dot.ink[c] <= Max(colors.primary[c], colors.secondary[c])

C4_Witness ==
    /\ tech.pc = "save"
    /\ tech.dots = Len(ConnectorSteps)
    /\ tech.dot.ink = <<26, 186, 156, 128>>

\* v is int() of the linear interpolation e / 100
IsTruncationOf(v, e) == 100 * v <= e /\ e - 100 * v <= 100

\* C10: the first dot of a connector is centred on node i with the primary
\* colour, the last dot is centred on node j with the secondary colour, and
\* every dot is the linear interpolation of position and colour at its t.
C10_ConnectorEndsOnNodeJ ==
    tech.dot # NoDraw =>
        LET t == ConnectorSteps[tech.dots]
            n1 == tech.ends[1]
            n2 == tech.ends[2]
        IN /\ tech.dots = 1 =>
                 /\ DotCenter(tech.dot) = <<n1[1], n1[2]>>
                 /\ SubSeq(tech.dot.ink, 1, 3) = colors.primary
           /\ tech.dots = Len(ConnectorSteps) =>
                 /\ DotCenter(tech.dot) = <<n2[1], n2[2]>>
                 /\ SubSeq(tech.dot.ink, 1, 3) = colors.secondary
           /\ \A c \in 1..2 :
                 IsTruncationOf(DotCenter(tech.dot)[c],
                                n1[c] * (100 - t) + n2[c] * t)
           /\ \A c \in 1..3 :
                 IsTruncationOf(tech.dot.ink[c],
                                colors.primary[c] * (100 - t)
                                + colors.secondary[c] * t)

(***************************************************************************)
(* Properties of the logo's pixels.                                        *)
(***************************************************************************)
\* squared distance of the probed pixel from the logo's centre (100, 100)
LogoD2 ==
    (probe.x - 100) * (probe.x - 100) + (probe.y - 100) * (probe.y - 100)

LogoFinished == probe.img = "logo" /\ probe.k = Len(LogoDraws)

\* the pixels of the L: its stem and its foot
InLShape(x, y) ==
    \/ 60 <= x /\ x <= 90 /\ 70 <= y /\ y <= 150
    \/ 60 <= x /\ x <= 140 /\ 130 <= y /\ y <= 150

Opaque(rgb) == rgb \o <<255>>

\* C2 as stated: after the three draws every pixel at a distance strictly
\* between 60 and 80 from (100, 100) has the primary colour.
C2_RingIsPrimary ==
    LogoFinished /\ LogoD2 > 60 * 60 /\ LogoD2 < 80 * 80 =>
        probe.color = Opaque(colors.primary)

\* C2 amended: after the three draws every pixel at a distance of more than
\* 60.5 and less than 80 from (100, 100) that is not a pixel of the L has the
\* primary colour, and every such pixel of the L is white.
C2_RingOutsideLIsPrimary ==
    LogoFinished /\ 4 * LogoD2 > 121 * 121 /\ LogoD2 < 80 * 80 =>
        probe.color = IF InLShape(probe.x, probe.y)
                      THEN Opaque(colors.white)
                      ELSE Opaque(colors.primary)

C2_Witness ==
    /\ LogoFinished
    /\ probe.x = 100 /\ probe.y = 30
    /\ probe.color = Opaque(colors.primary)

\* C3 as stated: no draw writes a pixel farther than 80 from (100, 100), so
\* such a pixel is (0, 0, 0, 0) after the three draws; the centre pixel has
\* the secondary colour.
C3_NothingOutsideRadius ==
    /\ probe.img = "logo" /\ LogoD2 > 80 * 80 =>
          probe.writers = {} /\ probe.color = Transparent
    /\ LogoFinished /\ probe.x = 100 /\ probe.y = 100 =>
          probe.color = Opaque(colors.secondary)

\* C3 amended: no draw writes a pixel farther than 80.5 from (100, 100), so
\* such a pixel is (0, 0, 0, 0) after the three draws; the inner circle and
\* the L write only pixels the outer circle has written; the L does not
\* write the centre pixel, which has the secondary colour.
C3_NothingOutsideDisc ==
    /\ probe.img = "logo" /\ 4 * LogoD2 > 161 * 161 =>
          probe.writers = {} /\ probe.color = Transparent
    /\ probe.img = "logo" /\ probe.writers # {} => 1 \in probe.writers
    /\ LogoFinished /\ probe.x = 100 /\ probe.y = 100 =>
          probe.writers = {1, 2} /\ probe.color = Opaque(colors.secondary)

C3_Witness ==
    /\ LogoFinished
    /\ probe.x = 181 /\ probe.y = 100
    /\ probe.color = Transparent

(***************************************************************************)
(* Properties of the team images' pixels.                                  *)
(***************************************************************************)
TeamFinished ==
    probe.img \in SeqToSet(roles) /\ probe.k = Len(TeamDraws(probe.img))

\* every channel of c is within 1 of the channel of d
Within1(c, d) == \A i \in 1..3 : c[i] - d[i] \in {-1, 0, 1}

\* the draws 1..height of a team image are the gradient rows y = 0..height-1
GradientMonotone ==
    probe.img \in SeqToSet(roles) =>
        /\ probe.k = 1 => probe.lastInk = colors.light
        /\ probe.k = TeamHeight => Within1(probe.lastInk, colors.primary)
        /\ probe.k \in 1..TeamHeight =>
              \A c \in 1..3 : /\ colors.primary[c] <= probe.lastInk[c]
                              /\ probe.lastInk[c] <= colors.light[c]
        /\ probe.k \in 2..TeamHeight =>
              \A c \in 1..3 : probe.lastInk[c] <= probe.prevInk[c]

\* C5 as stated: after all draws of a role image the pixels of row 0 have
\* the light colour and the pixels of row height-1 the primary colour up to
\* rounding, and the row colour changes monotonically from light to primary.
C5_TopLightBottomPrimary ==
    /\ TeamFinished /\ probe.y = 0 => probe.color = colors.light
    /\ TeamFinished /\ probe.y = TeamHeight - 1 =>
          Within1(probe.color, colors.primary)
    /\ GradientMonotone

\* C5 amended: after all draws of a role image the pixels of row 0 have the
\* light colour; the pixels of row height-1 left of x = 100 and right of
\* x = 200 have the primary colour up to rounding, those between 100 and
\* 200 are covered by the body silhouette and have the dark colour; the row
\* colour of the gradient changes monotonically from light to primary.
C5_BottomOutsideSilhouette ==
    /\ TeamFinished /\ probe.y = 0 => probe.color = colors.light
    /\ TeamFinished /\ probe.y = TeamHeight - 1
         /\ (probe.x < 100 \/ probe.x > 200) =>
          Within1(probe.color, colors.primary)
    /\ TeamFinished /\ probe.y = TeamHeight - 1
         /\ 100 < probe.x /\ probe.x < 200 =>
          probe.color = colors.dark
    /\ GradientMonotone

C5_Witness ==
    /\ TeamFinished
    /\ probe.img = "cso"
    /\ probe.x = 50 /\ probe.y = TeamHeight - 1
    /\ probe.color = colors.primary

=============================================================================
